---- MODULE Spec2Model ----
(***************************************************************************)
(* Model of pytorchvideo/data/encoded_video.py: the backend selector       *)
(* select_video_class and the loader EncodedVideo.from_path.               *)
(*                                                                         *)
(* One call of from_path is a sequence of steps, one per statement of the  *)
(* method; pc names the statement about to run.  The collaborators (path   *)
(* manager, cv2.VideoCapture, backend constructors) are the environment:   *)
(* what they return is chosen when the call starts.                        *)
(*                                                                         *)
(* Numbers: cv2 reports dimensions as doubles and the code divides in      *)
(* floating point before int().  For the integral values of this model the *)
(* truncated double quotient equals the truncated exact quotient, so the   *)
(* arithmetic is done on integers with truncation toward zero.             *)
(***************************************************************************)
EXTENDS Integers, FiniteSets, Sequences, TLC

\* ---- bounds ----
MaxDim == 3
MaxScale == 3

\* ---- inputs ----
\* probed frame dimensions: small values, a negative one, and the full-HD pair
Dims == (-1 .. MaxDim) \cup {1080, 1920}
\* values of the short_side_scale option when supplied
Scales == (0 .. MaxScale) \cup {320}
\* decoder tokens a caller may pass; "mpeg" and "" are outside the enumeration
Tokens == {"pyav", "torchvision", "decord", "mpeg", ""}
\* how the path manager behaves for file_path
IoOutcomes == {"ok", "open_fails", "read_fails"}

Keys == {"short_side_scale", "width", "height", "extra"}
NONE == -1000
\* the dict holding the keys whose value is given (not NONE)
DictOf(s, w, h, e) ==
  LET v == [k \in Keys |-> IF k = "short_side_scale" THEN s
                           ELSE IF k = "width" THEN w
                           ELSE IF k = "height" THEN h
                           ELSE e]
  IN [k \in {x \in Keys : v[x] # NONE} |-> v[k]]
\* **other_args: short_side_scale absent or one of Scales, and optional
\* caller values for width, height and one unrelated option
ArgDicts ==
  {DictOf(s, w, h, e) : s \in Scales \cup {NONE}, w \in {NONE, 7},
                        h \in {NONE, 9}, e \in {NONE, 5}}

NoArgs == [k \in {} |-> 0]

\* ---- dict helpers (Python dict semantics) ----
\* other_args.pop(key, None): the value
PopValueDefaultOne(d, k) == IF k \in DOMAIN d THEN d[k] ELSE 1
PopValue(d, k) == IF k \in DOMAIN d THEN d[k] ELSE NONE
\* other_args.pop(key, None): the dict that is left
PopRest(d, k) == [x \in (DOMAIN d) \ {k} |-> d[x]]
\* d[k] = v
SetItemIfAbsent(d, k, v) ==
  [x \in (DOMAIN d) \cup {k} |-> IF x \in DOMAIN d THEN d[x] ELSE v]
SetItem(d, k, v) == [x \in (DOMAIN d) \cup {k} |-> IF x = k THEN v ELSE d[x]]
\* truth value of a popped option: None and 0 are falsy
TruthyNotNone(v) == v # NONE
Truthy(v) == v # NONE /\ v # 0

\* ---- arithmetic ----
Abs(x) == IF x < 0 THEN -x ELSE x
\* int(a / b): true division, then truncation toward zero
IntOfQuotient(a, b) ==
  IF (a < 0) = (b < 0) THEN Abs(a) \div Abs(b) ELSE -(Abs(a) \div Abs(b))

\* lines 78-85: the width/height written into other_args
ScaledDimsRoundUp(w, h, t) ==
  IF w < h
    THEN [width |-> t, height |-> IntOfQuotient(t * h + w - 1, w)]
    ELSE [width |-> IntOfQuotient(t * w + h - 1, h), height |-> t]
ScaledDimsSwapped(w, h, t) ==
  IF w < h
    THEN [width |-> IntOfQuotient(t * w, h), height |-> t]
    ELSE [width |-> t, height |-> IntOfQuotient(t * h, w)]
ScaledDims(w, h, t) ==
  IF w < h
    THEN [width |-> t, height |-> IntOfQuotient(t * h, w)]
    ELSE [width |-> IntOfQuotient(t * w, h), height |-> t]

\* line 75: the validity check
InvalidDimsWidthOnly(w, h) == w = 0
InvalidDims(w, h) == w = 0 \/ h = 0

\* ---- backend selection ----
\* DecoderType(decoder): the enum member for a token, "ValueError" for a
\* token that is no member's value
DecoderType(tok) ==
  IF tok = "pyav" THEN "PYAV"
  ELSE IF tok = "torchvision" THEN "TORCHVISION"
  ELSE IF tok = "decord" THEN "DECORD"
  ELSE "ValueError"

\* select_video_class: the class, or "raise" for an unsupported token (the
\* ValueError of DecoderType(decoder) or the NotImplementedError of the else
\* branch: either way the call fails at this point for want of a backend)
select_video_class_lenient(tok) ==
  IF DecoderType(tok) = "TORCHVISION" THEN "EncodedVideoTorchVision"
  ELSE IF DecoderType(tok) = "DECORD" THEN "EncodedVideoDecord"
  ELSE "EncodedVideoPyAV"
select_video_class_confused(tok) ==
  IF DecoderType(tok) = "PYAV" THEN "EncodedVideoPyAV"
  ELSE IF DecoderType(tok) = "TORCHVISION" THEN "EncodedVideoPyAV"
  ELSE IF DecoderType(tok) = "DECORD" THEN "EncodedVideoDecord"
  ELSE "raise"
select_video_class(tok) ==
  IF DecoderType(tok) = "PYAV" THEN "EncodedVideoPyAV"
  ELSE IF DecoderType(tok) = "TORCHVISION" THEN "EncodedVideoTorchVision"
  ELSE IF DecoderType(tok) = "DECORD" THEN "EncodedVideoDecord"
  ELSE "raise"

\* default of the decoder parameter
DefaultDecoder == "pyav"
\* marks a call that passes no decoder argument
Omitted == "<omitted>"

VARIABLES
  pc,            \* statement of from_path about to run; "idle" between calls
  io,            \* environment: behaviour of g_pathmgr for file_path
  srcW, srcH,    \* environment: what cv2 reports for file_path
  given,         \* the caller's decoder argument, Omitted when left out
  decoder,       \* parameter decoder
  callerArgs,    \* **other_args as the caller passed them
  other_args,    \* the local dict other_args
  fh,            \* the handle from g_pathmgr.open: "none", "open", "closed"
  pending,       \* exception in flight inside the with block
  video_file,    \* "none" or "buffer"
  short_side_scale,
  probes,        \* number of cv2.VideoCapture probes made by this call
  width, height, \* locals width and height
  video_cls,     \* result of select_video_class
  instance,      \* the constructed backend object, or NoInstance
  err,           \* error the call ended with, "none" otherwise
  log            \* the steps of this call, in order

vars == <<pc, io, srcW, srcH, given, decoder, callerArgs, other_args, fh, pending,
          video_file, short_side_scale, probes, width, height, video_cls,
          instance, err, log>>

NoInstance == [cls |-> "none", file |-> "none", options |-> NoArgs]

Init ==
  /\ pc = "idle"
  /\ io = "ok"
  /\ srcW = 0
  /\ srcH = 0
  /\ given = Omitted
  /\ decoder = DefaultDecoder
  /\ callerArgs = NoArgs
  /\ other_args = NoArgs
  /\ fh = "none"
  /\ pending = "none"
  /\ video_file = "none"
  /\ short_side_scale = NONE
  /\ probes = 0
  /\ width = 0
  /\ height = 0
  /\ video_cls = "none"
  /\ instance = NoInstance
  /\ err = "none"
  /\ log = <<>>

\* a caller invokes EncodedVideo.from_path(file_path, decoder=tok, **args)
Call(arg, args, outcome, w, h) ==
  /\ pc = "idle"
  /\ pc' = "open"
  /\ io' = outcome
  /\ srcW' = w
  /\ srcH' = h
  /\ given' = arg
  /\ decoder' = IF arg = Omitted THEN DefaultDecoder ELSE arg
  /\ callerArgs' = args
  /\ other_args' = args
  /\ fh' = "none"
  /\ pending' = "none"
  /\ video_file' = "none"
  /\ short_side_scale' = NONE
  /\ probes' = 0
  /\ width' = 0
  /\ height' = 0
  /\ video_cls' = "none"
  /\ instance' = NoInstance
  /\ err' = "none"
  /\ log' = <<>>

\* the decoder argument left out: the parameter takes its default
CallDefault(args, outcome, w, h) == Call(Omitted, args, outcome, w, h)

\* state of the handle after the with block's __exit__
WithExitNoFinally(h, exc) == IF exc # "none" THEN h ELSE "closed"
WithExit(h, exc) == "closed"

\* line 66: g_pathmgr.open(file_path, "rb")
Open ==
  /\ pc = "open"
  /\ IF io = "open_fails"
       THEN /\ err' = "IOError"
            /\ pc' = "done"
            /\ fh' = fh
            /\ log' = log
       ELSE /\ fh' = "open"
            /\ pc' = "read"
            /\ err' = err
            /\ log' = Append(log, "open")
  /\ UNCHANGED <<io, srcW, srcH, given, decoder, callerArgs, other_args, pending,
                 video_file, short_side_scale, probes, width, height,
                 video_cls, instance>>

\* line 67: video_file = io.BytesIO(fh.read())
Read ==
  /\ pc = "read"
  /\ IF io = "read_fails"
       THEN /\ pending' = "IOError"
            /\ video_file' = video_file
       ELSE /\ pending' = pending
            /\ video_file' = "buffer"
  /\ log' = Append(log, "read")
  /\ pc' = "exit_with"
  /\ UNCHANGED <<io, srcW, srcH, given, decoder, callerArgs, other_args, fh,
                 short_side_scale, probes, width, height, video_cls,
                 instance, err>>

\* lines 66-67: leaving the with block closes fh; a pending exception goes on
ExitWith ==
  /\ pc = "exit_with"
  /\ fh' = WithExit(fh, pending)
  /\ IF pending # "none"
       THEN /\ err' = pending
            /\ pc' = "done"
       ELSE /\ err' = err
            /\ pc' = "pop"
  /\ pending' = "none"
  /\ UNCHANGED <<io, srcW, srcH, given, decoder, callerArgs, other_args, video_file,
                 short_side_scale, probes, width, height, video_cls,
                 instance, log>>

\* lines 69-70: pop the option and test it
PopScale ==
  /\ pc = "pop"
  /\ short_side_scale' = PopValue(other_args, "short_side_scale")
  /\ other_args' = PopRest(other_args, "short_side_scale")
  /\ pc' = IF Truthy(short_side_scale') THEN "probe" ELSE "select"
  /\ UNCHANGED <<io, srcW, srcH, given, decoder, callerArgs, fh, pending,
                 video_file, probes, width, height, video_cls, instance,
                 err, log>>

\* lines 71-73: cv2.VideoCapture(file_path) and the two get() calls
Probe ==
  /\ pc = "probe"
  /\ probes' = probes + 1
  /\ width' = srcW
  /\ height' = srcH
  /\ log' = Append(log, "probe")
  /\ pc' = "check"
  /\ UNCHANGED <<io, srcW, srcH, given, decoder, callerArgs, other_args, fh,
                 pending, video_file, short_side_scale, video_cls, instance,
                 err>>

\* lines 75-76
CheckDims ==
  /\ pc = "check"
  /\ IF InvalidDims(width, height)
       THEN /\ err' = "InvalidSource"
            /\ pc' = "done"
       ELSE /\ err' = err
            /\ pc' = "scale"
  /\ UNCHANGED <<io, srcW, srcH, given, decoder, callerArgs, other_args, fh,
                 pending, video_file, short_side_scale, probes, width,
                 height, video_cls, instance, log>>

\* lines 78-85; dividing by a zero dimension raises ZeroDivisionError
Scale ==
  /\ pc = "scale"
  /\ IF (IF width < height THEN width ELSE height) = 0
       THEN /\ err' = "ZeroDivisionError"
            /\ pc' = "done"
            /\ UNCHANGED <<width, height, other_args, log>>
       ELSE /\ LET r == ScaledDims(width, height, short_side_scale) IN
                 /\ width' = r.width
                 /\ height' = r.height
                 /\ other_args' = SetItem(SetItem(other_args, "width", r.width),
                                          "height", r.height)
            /\ log' = Append(log, "scale")
            /\ pc' = "select"
            /\ err' = err
  /\ UNCHANGED <<io, srcW, srcH, given, decoder, callerArgs, fh, pending,
                 video_file, short_side_scale, probes, video_cls, instance>>

\* line 87
Select ==
  /\ pc = "select"
  /\ LET c == select_video_class(decoder) IN
       IF c = "raise"
         THEN /\ err' = "UnsupportedBackend"
              /\ pc' = "done"
              /\ video_cls' = video_cls
         ELSE /\ video_cls' = c
              /\ pc' = "construct"
              /\ err' = err
  /\ log' = Append(log, "select")
  /\ UNCHANGED <<io, srcW, srcH, given, decoder, callerArgs, other_args, fh,
                 pending, video_file, short_side_scale, probes, width,
                 height, instance>>

\* lines 88-94
Construct ==
  /\ pc = "construct"
  /\ instance' = [cls |-> video_cls, file |-> video_file,
                  options |-> other_args]
  /\ log' = Append(log, "construct")
  /\ pc' = "done"
  /\ UNCHANGED <<io, srcW, srcH, given, decoder, callerArgs, other_args, fh,
                 pending, video_file, short_side_scale, probes, width,
                 height, video_cls, err>>

\* the call has returned or raised: its frame is gone and nothing of it is
\* kept between calls
Return ==
  /\ pc = "done"
  /\ pc' = "idle"
  /\ io' = "ok"
  /\ srcW' = 0
  /\ srcH' = 0
  /\ given' = Omitted
  /\ decoder' = DefaultDecoder
  /\ callerArgs' = NoArgs
  /\ other_args' = NoArgs
  /\ fh' = "none"
  /\ pending' = "none"
  /\ video_file' = "none"
  /\ short_side_scale' = NONE
  /\ probes' = 0
  /\ width' = 0
  /\ height' = 0
  /\ video_cls' = "none"
  /\ instance' = NoInstance
  /\ err' = "none"
  /\ log' = <<>>

\* from_path called with an explicit decoder token
FromPath ==
  /\ pc = "idle"
  /\ \E tok \in Tokens, args \in ArgDicts, outcome \in IoOutcomes,
        w \in Dims, h \in Dims : Call(tok, args, outcome, w, h)

\* from_path called without a decoder argument
FromPathDefault ==
  /\ pc = "idle"
  /\ \E args \in ArgDicts, outcome \in IoOutcomes, w \in Dims, h \in Dims :
        CallDefault(args, outcome, w, h)

Next ==
  \/ FromPath
  \/ FromPathDefault
  \/ Open
  \/ Read
  \/ ExitWith
  \/ PopScale
  \/ Probe
  \/ CheckDims
  \/ Scale
  \/ Select
  \/ Construct
  \/ Return

Spec == Init /\ [][Next]_vars

\* ---- vocabulary of the properties ----
ValidTokens == {"pyav", "torchvision", "decord"}
InLog(step) == \E i \in 1 .. Len(log) : log[i] = step
Supplied == "short_side_scale" \in DOMAIN callerArgs
SuppliedScale == IF Supplied THEN callerArgs["short_side_scale"] ELSE NONE
\* the caller's options without the short_side_scale key
CallerRest ==
  [k \in (DOMAIN callerArgs) \ {"short_side_scale"} |-> callerArgs[k]]
Min(a, b) == IF a < b THEN a ELSE b

\* ---- C1 ----
\* C1 as stated: for a decoder token outside {pyav, torchvision, decord} the
\* call fails with the unsupported-backend error before the file is opened or
\* read and before any probe.
C1_FailsBeforeIO ==
  (pc # "idle" /\ decoder \notin ValidTokens) =>
     /\ fh = "none"
     /\ video_file = "none"
     /\ probes = 0
     /\ (pc = "done" => err = "UnsupportedBackend")

\* C1 amended: for a decoder token outside the enumerated set no instance is
\* ever constructed and a finished call has failed; the unsupported-backend
\* error is raised at backend selection only, after the file was opened, read
\* and closed, and after the probe and the scale computation when a non-zero
\* short_side_scale was supplied; every call that gets as far as selection
\* ends with that error.
C1_FailsAtSelection ==
  (pc # "idle" /\ decoder \notin ValidTokens) =>
     /\ instance = NoInstance
     /\ (pc = "done" => err # "none")
     /\ (err = "UnsupportedBackend" =>
           /\ fh = "closed"
           /\ video_file = "buffer"
           /\ log[1] = "open" /\ log[2] = "read"
           /\ log[Len(log)] = "select"
           /\ (Truthy(SuppliedScale) => probes = 1 /\ InLog("scale")))
     /\ (pc = "done" /\ InLog("select") => err = "UnsupportedBackend")

C1_Witness ==
  /\ pc = "done"
  /\ decoder = "mpeg"
  /\ err = "UnsupportedBackend"
  /\ probes = 1
  /\ fh = "closed"

\* ---- C2 ----
\* C2 as stated: probed 1920x1080 with short_side_scale 320 injects width=320,
\* height=180; probed 1080x1920 injects width=180, height=320.
C2_LongSideExample ==
  (InLog("scale") /\ short_side_scale = 320) =>
     /\ (srcW = 1920 /\ srcH = 1080 =>
           other_args["width"] = 320 /\ other_args["height"] = 180)
     /\ (srcW = 1080 /\ srcH = 1920 =>
           other_args["width"] = 180 /\ other_args["height"] = 320)

\* C2 amended: probed 1920x1080 with short_side_scale 320 injects width=568,
\* height=320; probed 1080x1920 injects width=320, height=568.
C2_ShortSideExample ==
  (InLog("scale") /\ short_side_scale = 320) =>
     /\ (srcW = 1920 /\ srcH = 1080 =>
           other_args["width"] = 568 /\ other_args["height"] = 320)
     /\ (srcW = 1080 /\ srcH = 1920 =>
           other_args["width"] = 320 /\ other_args["height"] = 568)

C2_Witness ==
  /\ InLog("scale")
  /\ short_side_scale = 320
  /\ srcW = 1920
  /\ srcH = 1080
  /\ pc = "done"
  /\ InLog("construct")
  /\ instance.options["width"] = 568
  /\ instance.options["height"] = 320

\* ---- C3 ----
\* C3: for positive probed w, h and a positive integer target t the injected
\* size keeps the aspect ratio with t on the shorter side: w < h gives
\* width = t, height = floor(t*h/w); w >= h gives height = t,
\* width = floor(t*w/h); the smaller of the two results is t, and w = h gives
\* t for both.
C3_AspectRatio ==
  (InLog("scale") /\ srcW > 0 /\ srcH > 0 /\ short_side_scale > 0) =>
     LET t == short_side_scale
         ow == other_args["width"]
         oh == other_args["height"]
     IN /\ IF srcW < srcH
             THEN ow = t /\ oh = (t * srcH) \div srcW
             ELSE oh = t /\ ow = (t * srcW) \div srcH
        /\ Min(ow, oh) = t
        /\ (srcW = srcH => ow = t /\ oh = t)

C3_Witness ==
  /\ InLog("scale")
  /\ srcW = 2
  /\ srcH = 3
  /\ short_side_scale = 3
  /\ other_args["width"] = 3
  /\ other_args["height"] = 4

\* ---- C4 ----
\* C4 as stated: with a probed width or height of 0, every call that supplies
\* a short_side_scale option fails with the invalid-source error, whatever
\* the decoder token, and constructs nothing.  (Stated for calls whose file
\* was read; a call whose open or read fails ends with the I/O error.)
C4_AnySuppliedScale ==
  (pc = "done" /\ io = "ok" /\ Supplied /\ (srcW = 0 \/ srcH = 0)) =>
     /\ err = "InvalidSource"
     /\ instance = NoInstance

\* C4 amended: with a probed width or height of 0, every call that supplies a
\* non-zero short_side_scale option and whose file was opened and read fails
\* with the invalid-source error, whatever the decoder token; backend
\* selection is not reached and nothing is constructed.
C4_NonZeroScale ==
  (pc = "done" /\ io = "ok" /\ Supplied /\ SuppliedScale # 0
     /\ (srcW = 0 \/ srcH = 0)) =>
     /\ err = "InvalidSource"
     /\ instance = NoInstance
     /\ ~InLog("select")
     /\ ~InLog("construct")

C4_Witness ==
  /\ pc = "done"
  /\ decoder = "mpeg"
  /\ srcW # 0
  /\ srcH = 0
  /\ SuppliedScale = 2
  /\ err = "InvalidSource"

\* ---- C5 ----
\* C5: whenever the scale computation is reached both probed dimensions are
\* strictly positive, and a non-positive probed dimension (negative included)
\* ends the call with the invalid-source error with nothing injected.
C5_PositiveAtScale ==
  /\ (pc = "scale" \/ InLog("scale") => width > 0 /\ height > 0
                                         /\ srcW > 0 /\ srcH > 0)
  /\ (pc = "done" /\ probes > 0 /\ (srcW <= 0 \/ srcH <= 0) =>
        err = "InvalidSource" /\ other_args = CallerRest)

\* ---- C6 ----
\* C6: the handle opened by from_path is open only while the with block runs
\* (the read and the block's exit); it is closed when the block is left, also
\* when the read failed, and it is closed before the option is popped, before
\* any probe, scale computation, selection or construction, and when the call
\* ends.
C6_HandleScoped ==
  /\ (fh = "open" => pc \in {"read", "exit_with"})
  /\ (pc \in {"pop", "probe", "check", "scale", "select", "construct"} =>
        fh = "closed")
  /\ (probes > 0 \/ InLog("scale") \/ InLog("select") \/ InLog("construct") =>
        fh = "closed")
  /\ (pc = "done" => fh # "open")
  /\ (pc = "done" /\ InLog("open") => fh = "closed")

C6_Witness ==
  /\ pc = "done"
  /\ io = "read_fails"
  /\ err = "IOError"
  /\ log = <<"open", "read">>
  /\ fh = "closed"

\* ---- C7 ----
\* C7: a call that supplies no short_side_scale option never probes, never
\* changes other_args, and the options given to the backend constructor are
\* exactly the caller's options, width and height included.
C7_PassThrough ==
  (pc # "idle" /\ ~Supplied) =>
     /\ probes = 0
     /\ ~InLog("probe")
     /\ ~InLog("scale")
     /\ other_args = callerArgs
     /\ (InLog("construct") => instance.options = callerArgs)
     /\ (pc = "done" /\ io = "ok" /\ decoder \in ValidTokens =>
           InLog("construct"))

C7_Witness ==
  /\ pc = "done"
  /\ ~Supplied
  /\ InLog("construct")
  /\ DOMAIN callerArgs = {"width", "height", "extra"}
  /\ instance.options = callerArgs

\* ---- C8 ----
\* C8: when the scale computation ran and the backend was constructed, the
\* options given to the constructor are the caller's options without
\* short_side_scale, with width and height set to the computed values (any
\* caller width/height overwritten) and every other option unchanged.
C8_InjectedOptions ==
  (InLog("scale") /\ InLog("construct")) =>
     /\ DOMAIN instance.options =
          ((DOMAIN callerArgs) \ {"short_side_scale"}) \cup {"width", "height"}
     /\ instance.options["width"] = width
     /\ instance.options["height"] = height
     /\ IF srcW < srcH
          THEN /\ width = SuppliedScale
               /\ height = IntOfQuotient(SuppliedScale * srcH, srcW)
          ELSE /\ height = SuppliedScale
               /\ width = IntOfQuotient(SuppliedScale * srcW, srcH)
     /\ \A k \in (DOMAIN callerArgs) \ {"short_side_scale", "width", "height"} :
          instance.options[k] = callerArgs[k]

C8_Witness ==
  /\ InLog("scale")
  /\ InLog("construct")
  /\ DOMAIN callerArgs = Keys
  /\ instance.options["width"] # callerArgs["width"]
  /\ instance.options["height"] # callerArgs["height"]
  /\ instance.options["extra"] = callerArgs["extra"]

\* ---- C9 ----
\* the backend type each enumerated token stands for
BackendOf(tok) ==
  IF tok = "pyav" THEN "EncodedVideoPyAV"
  ELSE IF tok = "torchvision" THEN "EncodedVideoTorchVision"
  ELSE "EncodedVideoDecord"

\* C9: for each of pyav, torchvision, decord, select_video_class gives the
\* corresponding backend type, the three types differ, and from_path
\* constructs its instance from the type selected for the caller's token,
\* pyav when the token is omitted.
C9_SelectedBackend ==
  /\ Cardinality({select_video_class(t) : t \in ValidTokens}) = 3
  /\ (InLog("select") /\ decoder \in ValidTokens =>
        video_cls = BackendOf(decoder))
  /\ (InLog("construct") =>
        /\ given \in ValidTokens \cup {Omitted}
        /\ instance.cls = video_cls
        /\ instance.cls = BackendOf(IF given = Omitted THEN "pyav" ELSE given))

C9_Witness ==
  /\ pc = "done"
  /\ given = "torchvision"
  /\ instance.cls = "EncodedVideoTorchVision"

\* ---- C10 ----
\* C10: a short_side_scale of 0 acts like an absent one except that the key is
\* removed: no probe, no invalid-source error even for zero dimensions, no
\* width/height injected or overwritten, and the call goes on to selection
\* and, for a supported token, construction with the caller's other options.
C10_ZeroScale ==
  (pc # "idle" /\ Supplied /\ SuppliedScale = 0) =>
     /\ probes = 0
     /\ ~InLog("scale")
     /\ err # "InvalidSource"
     /\ (pc \in {"select", "construct", "done"} /\ io = "ok" =>
           other_args = CallerRest)
     /\ (pc = "done" /\ io = "ok" => InLog("select"))
     /\ (pc = "done" /\ io = "ok" /\ decoder \in ValidTokens =>
           InLog("construct") /\ instance.options = CallerRest)

C10_Witness ==
  /\ pc = "done"
  /\ SuppliedScale = 0
  /\ srcW = 0
  /\ srcH = 0
  /\ "width" \in DOMAIN callerArgs
  /\ InLog("construct")
  /\ instance.options = CallerRest

====
